---- MODULE Spec2Model ----
(***************************************************************************)
(* Selector dispatch (lang/codegen/src/generator/dispatch.rs) of an ink!   *)
(* contract, executed against the off-chain environment                    *)
(* (core/src/env/engine/off_chain/impls.rs).                               *)
(*                                                                         *)
(* The generator is modelled through the code it emits for one contract    *)
(* (Messages, Constructors below).  Bytes are the numbers 0..255, byte     *)
(* strings are sequences.  Balances are unsigned integers of BalanceBits   *)
(* bits.                                                                   *)
(***************************************************************************)
EXTENDS Integers, Sequences, FiniteSets, TLC

VARIABLES
    accounts,      \* EnvInstance.accounts: account id -> Account or NoAccount
    chain_spec,    \* EnvInstance.chain_spec: the configuration of the chain
    exec_context,  \* EnvInstance.exec_context: NoContext or the record of the current call
    pc,            \* where the invocation stands
    mode,          \* DispatchMode handed to dispatch_using_mode ("none" before)
    invoked,       \* the handlers CALLABLE was called for, with their arguments
    result,        \* what dispatch_using_mode returned ("none" while it has not)
    exit_code,     \* status handed to std::process::exit (-1 while running)
    last,          \* the last environment operation, its result, the accounts before it
    ops            \* number of environment operations performed so far

vars ==
    <<accounts, chain_spec, exec_context, pc, mode, invoked, result, exit_code, last, ops>>

-----------------------------------------------------------------------------
(* Bounds *)

\* width of the balance type in bits (u128 in the default environment)
BalanceBits == 2

\* environment operations per run
MaxOps == 2

-----------------------------------------------------------------------------
(* Program constants *)

\* the selector is decoded as [u8; 4]
SelectorLen == 4

RECURSIVE Pow2(_)
Pow2(n) == IF n = 0 THEN 1 ELSE 2 * Pow2(n - 1)

BalanceModulus == Pow2(BalanceBits)
MaxBalance == BalanceModulus - 1
Balances == 0..MaxBalance

\* gas is a u64, of which the balance type need not hold every value
GasBits == BalanceBits + 1
MaxGas == Pow2(GasBits) - 1

AccountIds == {"alice", "bob", "carol"}
Keys == {"root", "other"}

\* Option<T>: None, Some(x)
None == << >>
Some(x) == << x >>

\* the absence of an account in the account store
NoAccount ==
    [exists |-> FALSE, balance |-> 0, kind |-> "none",
     storage |-> [k \in Keys |-> None], rent_allowance |-> 0]

\* the absence of an execution context
NoContext ==
    [initialized |-> FALSE, caller |-> "", callee |-> "", call_data |-> << >>,
     transferred_value |-> 0, gas |-> 0, output |-> None]

-----------------------------------------------------------------------------
(* Binary codec, as used by the generated decode and by return_value *)

EncodeU32(v) ==
    << v % 256, (v \div 256) % 256, (v \div 65536) % 256, (v \div 16777216) % 256 >>

EncodeType(t, v) ==
    CASE t = "u8"   -> << v >>
      [] t = "u16"  -> << v % 256, (v \div 256) % 256 >>
      [] t = "u32"  -> EncodeU32(v)
      [] t = "bool" -> << IF v THEN 1 ELSE 0 >>

TypeLen(t) ==
    CASE t = "u8" -> 1 [] t = "u16" -> 2 [] t = "u32" -> 4 [] t = "bool" -> 1

Drop(bytes, n) == SubSeq(bytes, n + 1, Len(bytes))
Take(bytes, n) == SubSeq(bytes, 1, n)

DecodeErr(why) == [ok |-> FALSE, err |-> why]

\* <T as scale::Decode>::decode(input): reads T off the front of the input
DecodeType(t, bytes) ==
    IF Len(bytes) < TypeLen(t)
    THEN DecodeErr("not enough data")
    ELSE CASE t = "u8"  -> [ok |-> TRUE, val |-> bytes[1], rest |-> Drop(bytes, 1)]
           [] t = "u16" -> [ok |-> TRUE, val |-> bytes[1] + 256 * bytes[2],
                            rest |-> Drop(bytes, 2)]
           [] t = "u32" -> [ok |-> TRUE,
                            val |-> bytes[1] + 256 * bytes[2] + 65536 * bytes[3]
                                    + 16777216 * bytes[4],
                            rest |-> Drop(bytes, 4)]
           [] t = "bool" -> IF bytes[1] \in {0, 1}
                            THEN [ok |-> TRUE, val |-> (bytes[1] = 1), rest |-> Drop(bytes, 1)]
                            ELSE DecodeErr("invalid bool")

-----------------------------------------------------------------------------
(* The contract handed to the generator: ir::Contract *)

\* selector 0x00000001: fn inc(&self, x: u32) -> u32
\* selector 0x00000002: fn get(&self) -> u32
\* selector 0x00000004: fn put(&mut self, flag: bool, n: u16)
Messages ==
    << [ident |-> "inc", kind |-> "Message", selector |-> <<0, 0, 0, 1>>,
        inputs |-> << "u32" >>, output |-> "u32", receiver |-> "Ref"],
       [ident |-> "get", kind |-> "Message", selector |-> <<0, 0, 0, 2>>,
        inputs |-> << >>, output |-> "u32", receiver |-> "Ref"],
       [ident |-> "put", kind |-> "Message", selector |-> <<0, 0, 0, 4>>,
        inputs |-> << "bool", "u16" >>, output |-> "unit", receiver |-> "RefMut"] >>

\* selector 0x00000003: fn new(init: u32) -> Self
Constructors ==
    << [ident |-> "new", kind |-> "Constructor", selector |-> <<0, 0, 0, 3>>,
        inputs |-> << "u32" >>, output |-> "unit", receiver |-> "None"] >>

contract_messages == Messages
contract_constructors == Constructors

Range(seq) == { seq[i] : i \in 1..Len(seq) }

-----------------------------------------------------------------------------
(* The generated dispatch enums *)

\* __{prefix}_0x{selector}: the prefix is the kind of the callable
generate_dispatch_variant_ident(cws) ==
    << IF cws.kind = "Message" THEN "Message" ELSE "Constructor", cws.selector >>

\* mutant: the fields of the variant are decoded from the last to the first
RECURSIVE DecodeArgs_right_to_left(_, _)
DecodeArgs_right_to_left(types, bytes) ==
    IF types = << >>
    THEN [ok |-> TRUE, val |-> << >>, rest |-> bytes]
    ELSE LET n == Len(types)
             final == DecodeType(types[n], bytes)
         IN  IF ~final.ok
             THEN final
             ELSE LET others == DecodeArgs_right_to_left(SubSeq(types, 1, n - 1),
                                                         final.rest)
                  IN  IF ~others.ok
                      THEN others
                      ELSE [ok |-> TRUE, val |-> others.val \o << final.val >>,
                            rest |-> others.rest]

\* decodes the argument types of one callable, left to right, each with `?`
RECURSIVE DecodeArgs(_, _)
DecodeArgs(types, bytes) ==
    IF types = << >>
    THEN [ok |-> TRUE, val |-> << >>, rest |-> bytes]
    ELSE LET first == DecodeType(Head(types), bytes) IN
         IF ~first.ok
         THEN first
         ELSE LET others == DecodeArgs(Tail(types), first.rest) IN
              IF ~others.ok
              THEN others
              ELSE [ok |-> TRUE, val |-> << first.val >> \o others.val,
                    rest |-> others.rest]

\* one match arm of the enum's scale::Decode: [selector bytes] => Ok(Self::variant(args))
generate_dispatch_variant_decode(cws, input) ==
    LET args == DecodeArgs(cws.inputs, input) IN
    IF args.ok
    THEN [ok |-> TRUE,
          val |-> [ident |-> generate_dispatch_variant_ident(cws), args |-> args.val],
          rest |-> args.rest]
    ELSE args

\* impl scale::Decode for a dispatch enum whose arms come from `callables`
DispatchEnumDecode(callables, unknown, input) ==
    IF Len(input) < SelectorLen
    THEN DecodeErr("not enough data")
    ELSE LET selector == Take(input, SelectorLen)
             arms == { cws \in Range(callables) : cws.selector = selector }
         IN  IF arms = {}
             THEN DecodeErr(unknown)
             ELSE generate_dispatch_variant_decode(
                      CHOOSE cws \in arms : TRUE, Drop(input, SelectorLen))

\* MessageDispatchEnum: variants, decode arms and execute arms of the messages
MessageDispatchEnum ==
    [decode_arms |-> contract_messages,
     unknown |-> "encountered unknown ink! message selector",
     execute_arms |-> contract_messages]

\* ConstructorDispatchEnum: variants and decode arms of the messages,
\* execute arms of the constructors
ConstructorDispatchEnum ==
    [decode_arms |-> contract_messages,
     unknown |-> "encountered unknown ink! constructor selector",
     execute_arms |-> contract_constructors]

DispatchEnumOf(m) ==
    IF m = "Instantiate" THEN ConstructorDispatchEnum ELSE MessageDispatchEnum

-----------------------------------------------------------------------------
(* Account store and execution context of the off-chain environment *)

\* values a handler stores and returns (u32)
Values == {41, 42}

\* ReturnFlags::into_u32: 0 for a normal return, 1 for a revert
ReturnFlags == {0, 1}

EmptyStorage == [k \in Keys |-> None]

NewUserAccount(balance) ==
    [exists |-> TRUE, balance |-> balance, kind |-> "user", storage |-> EmptyStorage, rent_allowance |-> 0]

NewContractAccount(balance, root) ==
    [exists |-> TRUE, balance |-> balance, kind |-> "contract",
     storage |-> [EmptyStorage EXCEPT !["root"] = Some(EncodeU32(root))],
     rent_allowance |-> 0]

\* the executed contract and the caller of the current call
Callee == "alice"
Caller == "bob"

NewExecContext(call_data) ==
    [initialized |-> TRUE, caller |-> Caller, callee |-> Callee, call_data |-> call_data,
     transferred_value |-> 0, gas |-> MaxBalance, output |-> None]

\* CallData as scale::Encode: the selector followed by the encoded arguments
EncodeCallData(call_data) == call_data

\* AccountsDb::get_or_create_account: a missing account is added as a user account
\* with balance zero
get_or_create_account(accts, id) ==
    IF ~accts[id].exists
    THEN [accts EXCEPT ![id] = NewUserAccount(0)]
    ELSE accts

set_balance(accts, id, balance) ==
    [accts EXCEPT ![id].balance = balance]

Existing(accts) == { id \in AccountIds : accts[id].exists }

RECURSIVE SumBalances(_, _)
SumBalances(accts, ids) ==
    IF ids = {}
    THEN 0
    ELSE LET id == CHOOSE x \in ids : TRUE IN
         accts[id].balance + SumBalances(accts, ids \ {id})

TotalBalance(accts) == SumBalances(accts, Existing(accts))

BalanceOf(accts, id) == IF ~accts[id].exists THEN 0 ELSE accts[id].balance

-----------------------------------------------------------------------------
(* Inputs *)

RECURSIVE EncodeArgs(_, _)
EncodeArgs(types, vals) ==
    IF types = << >>
    THEN << >>
    ELSE EncodeType(Head(types), Head(vals)) \o EncodeArgs(Tail(types), Tail(vals))

\* 16909060 = 0x01020304
U32Inputs == {41, 16909060}
\* 258 = 0x0102
U16Inputs == {258}

InputsOfType(t) ==
    CASE t = "u32" -> U32Inputs [] t = "u16" -> U16Inputs
      [] t = "bool" -> BOOLEAN [] t = "u8" -> {7}

RECURSIVE ArgTuples(_)
ArgTuples(types) ==
    IF types = << >>
    THEN { << >> }
    ELSE { << v >> \o rest : v \in InputsOfType(Head(types)), rest \in ArgTuples(Tail(types)) }

Handlers == Range(Messages) \cup Range(Constructors)

UnknownSelector == <<255, 255, 255, 255>>

Payloads ==
    UNION { { h.selector \o EncodeArgs(h.inputs, vals) : vals \in ArgTuples(h.inputs) } :
            h \in Handlers }
    \cup { UnknownSelector, <<0, 0, 0, 4, 2, 2, 1>> }

Prefixes(bytes) == { Take(bytes, n) : n \in 0..Len(bytes) }

\* every payload, every payload followed by a trailing byte, and all their prefixes
CallDataInputs ==
    UNION { Prefixes(p \o <<9>>) : p \in Payloads }

-----------------------------------------------------------------------------
(* Initial states: the environment as a test sets it up before the entry point *)

\* many call data, one account setup
InitDispatch ==
    /\ exec_context \in {NoContext} \cup { NewExecContext(cd) : cd \in CallDataInputs }
    /\ accounts = [id \in AccountIds |->
                      CASE id = Callee -> NewContractAccount(MaxBalance - 1, 41)
                        [] id = Caller -> NewUserAccount(MaxBalance)
                        [] OTHER -> NoAccount]

\* the call data of the setups of InitEnv
TestCallData == <<0, 0, 0, 2>>

\* many account setups, few call data
InitEnv ==
    /\ exec_context \in {NoContext, NewExecContext(TestCallData)}
    /\ \E callee \in {NoAccount} \cup { NewUserAccount(b) : b \in Balances }
                     \cup { NewContractAccount(b, 41) : b \in Balances },
          caller \in { NewUserAccount(b) : b \in {0, MaxBalance} } :
          accounts = [id \in AccountIds |->
                         CASE id = Callee -> callee
                           [] id = Caller -> caller
                           [] OTHER -> NoAccount]

\* the chain specification of a run: its gas price, None when the stored value does
\* not decode as T::Balance
NewChainSpec(gas_price) == [gas_price |-> gas_price]

DefaultGasPrice == Some(MaxBalance - 1)

NoOp(accts) ==
    [op |-> "none", target |-> "", value |-> 0, result |-> "none", ret |-> None,
     before |-> accts]

Init ==
    /\ InitDispatch \/ InitEnv
    /\ chain_spec = NewChainSpec(DefaultGasPrice)
    /\ pc = "start"
    /\ mode = "none"
    /\ invoked = << >>
    /\ result = "none"
    /\ exit_code = -1
    /\ last = NoOp(accounts)
    /\ ops = 0

-----------------------------------------------------------------------------
(* Dispatch *)

\* EnvInstance::decode_input::<T>: T decoded from the encoded call data of the
\* execution context; an error when there is no execution context
decode_input(ctx, T) ==
    IF ~ctx.initialized
    THEN DecodeErr("uninitialized execution context")
    ELSE LET decoded == DispatchEnumDecode(T.decode_arms, T.unknown,
                                           EncodeCallData(ctx.call_data))
         IN  IF decoded.ok
             THEN decoded
             ELSE DecodeErr("could not decode input call data")

\* arg_inputs of an execute arm: the fields of the variant, as they are when there is
\* exactly one, as a tuple otherwise
arg_inputs(fields) == IF Len(fields) = 1 THEN fields[1] ELSE fields

\* CALLABLE of a callable: |state, inputs_as_tuple_or_wildcard| binds the input to
\* __ink_binding_0.. and calls the handler with the bindings in this order
CALLABLE(cws, input) ==
    CASE Len(cws.inputs) = 0 -> << >>
      [] Len(cws.inputs) = 1 -> << input >>
      [] OTHER -> [n \in 1..Len(cws.inputs) |-> input[n]]

\* the trait a message implements: MessageMut if its receiver is &mut self
message_trait_ident(cws) ==
    IF cws.receiver = "RefMut" THEN "MessageMut" ELSE "MessageRef"

\* mutant: every execute arm runs its message on a shared reference
generate_dispatch_execute_message_arm_shared(cws) ==
    [mut_mod |-> FALSE, msg_trait |-> "MessageRef", exec_fn |-> "execute_message"]

\* (mut_mod, msg_trait, exec_fn) of the execute arm of a message: the closure takes
\* state: &mut Storage and runs under execute_message_mut for the receiver &mut self,
\* state: &Storage under execute_message for &self
generate_dispatch_execute_message_arm(cws) ==
    CASE cws.receiver = "RefMut" ->
            [mut_mod |-> TRUE, msg_trait |-> "MessageMut",
             exec_fn |-> "execute_message_mut"]
      [] cws.receiver = "Ref" ->
            [mut_mod |-> FALSE, msg_trait |-> "MessageRef", exec_fn |-> "execute_message"]

\* impl Execute for a dispatch enum: the arm of the variant calls CALLABLE with the
\* variant's fields; the enum has no arm for a variant of another name
Execute(T, variant) ==
    LET arms == { cws \in Range(T.execute_arms) :
                     generate_dispatch_variant_ident(cws) = variant.ident }
    IN  IF arms = {}
        THEN [pc |-> "no_arm", result |-> "none", invoked |-> << >>]
        ELSE [pc |-> "handler", result |-> "none",
              invoked |-> LET cws == CHOOSE arm \in arms : TRUE IN
                          << [handler |-> cws,
                              args |-> CALLABLE(cws, arg_inputs(variant.args))] >>]

\* mutant: the arm of a known selector runs although its arguments did not decode
dispatch_using_mode_partial(m, ctx) ==
    LET T == DispatchEnumOf(m)
        input == decode_input(ctx, T)
        arms == { cws \in Range(T.execute_arms) :
                     /\ ctx.initialized
                     /\ Len(ctx.call_data) >= SelectorLen
                     /\ cws.selector = Take(ctx.call_data, SelectorLen) }
    IN  IF ~input.ok
        THEN [pc |-> "done", result |-> "CouldNotReadInput",
              invoked |-> IF arms = {} THEN << >>
                          ELSE << [handler |-> CHOOSE cws \in arms : TRUE, args |-> << >>] >>]
        ELSE Execute(T, input.val)

\* mutant: input without a selector of the table is reported as an unknown selector,
\* also when it is too short to hold one
dispatch_using_mode_short_as_unknown(m, ctx) ==
    LET T == DispatchEnumOf(m)
        input == decode_input(ctx, T)
        known == /\ Len(ctx.call_data) >= SelectorLen
                 /\ Take(ctx.call_data, SelectorLen) \in
                        { cws.selector : cws \in Range(T.decode_arms) }
    IN  IF ~input.ok
        THEN [pc |-> "done",
              result |-> IF known THEN "CouldNotReadInput" ELSE "UnknownSelector",
              invoked |-> << >>]
        ELSE Execute(T, input.val)

\* mutant: input that does not decode is dropped and the dispatch reports success
dispatch_using_mode_swallow(m, ctx) ==
    LET T == DispatchEnumOf(m)
        input == decode_input(ctx, T)
    IN  IF ~input.ok
        THEN [pc |-> "done", result |-> "Ok", invoked |-> << >>]
        ELSE Execute(T, input.val)

\* mutant: the input is read with an expect on the execution context, as the
\* other operations of the environment read it
dispatch_using_mode_expect(m, ctx) ==
    LET T == DispatchEnumOf(m)
        input == decode_input(ctx, T)
    IN  IF ~ctx.initialized
        THEN [pc |-> "panicked", result |-> "none", invoked |-> << >>]
        ELSE IF ~input.ok
        THEN [pc |-> "done", result |-> "CouldNotReadInput", invoked |-> << >>]
        ELSE Execute(T, input.val)

\* DispatchUsingMode::dispatch_using_mode(mode)
dispatch_using_mode(m, ctx) ==
    LET T == DispatchEnumOf(m)
        input == decode_input(ctx, T)
    IN  IF ~input.ok
        THEN [pc |-> "done", result |-> "CouldNotReadInput", invoked |-> << >>]
        ELSE Execute(T, input.val)

EntryPoint(m) ==
    /\ pc = "start"
    /\ LET out == dispatch_using_mode(m, exec_context) IN
       /\ pc' = out.pc
       /\ result' = out.result
       /\ invoked' = out.invoked
    /\ last' = NoOp(accounts)
    /\ UNCHANGED <<accounts, chain_spec, exec_context, exit_code, ops>>

\* fn deploy() -> u32
Deploy ==
    /\ mode' = "Instantiate"
    /\ EntryPoint("Instantiate")

\* fn call() -> u32
Call ==
    /\ mode' = "Call"
    /\ EntryPoint("Call")

\* ink_lang::DispatchRetCode::from(DispatchResult).to_u32(): 0 for Ok(()), a code
\* of its own for each DispatchError
DispatchRetCode(res) ==
    CASE res = "Ok" -> 0
      [] res = "UnknownSelector" -> 1
      [] res = "CouldNotReadInput" -> 7

\* the u32 that deploy() or call() has returned (-1 while it has not returned)
EntryPointStatus == IF pc = "done" THEN DispatchRetCode(result) ELSE -1

-----------------------------------------------------------------------------
(* Environment operations, called by a running handler or directly by a test *)

\* "test": a test that calls the environment itself instead of an entry point; such
\* tests are enumerated over the setups of InitEnv
EnvCallable ==
    /\ ops < MaxOps
    /\ \/ pc \in {"test", "handler"}
       \/ /\ pc = "start"
          /\ exec_context.initialized => exec_context.call_data = TestCallData

AfterEnvCall == IF pc = "start" THEN "test" ELSE pc

Outcome(res, accts) == [result |-> res, accounts |-> accts]

\* dst_value + value on T::Balance: a panic where overflow is checked, the wrapped
\* sum where it is not
CreditedBalance(dst_value, value) ==
    IF dst_value + value > MaxBalance
    THEN { [panic |-> TRUE, sum |-> 0],
           [panic |-> FALSE, sum |-> (dst_value + value) % BalanceModulus] }
    ELSE { [panic |-> FALSE, sum |-> dst_value + value] }

\* mutant: the funds check lets through an amount one above the balance
InsufficientFunds_off_by_one(src_value, value) == src_value + 1 < value

\* if src_value < value { return Err(EnvError::TransferFailed) }
InsufficientFunds(src_value, value) == src_value < value

\* mutant: the destination is resolved or created before the funds are checked
transfer_impl_create_first(accts, ctx, destination, value) ==
    IF ~ctx.initialized
    THEN { Outcome("panic", accts) }
    ELSE LET src_id == ctx.callee IN
         IF ~accts[src_id].exists
         THEN { Outcome("panic", accts) }
         ELSE LET src_value == accts[src_id].balance
                  created == get_or_create_account(accts, destination)
                  dst_value == created[destination].balance
              IN  IF InsufficientFunds(src_value, value)
                  THEN { Outcome("TransferFailed", created) }
                  ELSE LET debited == set_balance(created, src_id, src_value - value)
                       IN  { IF credit.panic
                             THEN Outcome("panic", debited)
                             ELSE Outcome("Ok", set_balance(debited, destination,
                                                            credit.sum)) :
                             credit \in CreditedBalance(dst_value, value) }

\* mutant: a source account whose balance has come down to zero is removed
transfer_impl_reap(accts, ctx, destination, value) ==
    IF ~ctx.initialized
    THEN { Outcome("panic", accts) }
    ELSE LET src_id == ctx.callee IN
         IF ~accts[src_id].exists
         THEN { Outcome("panic", accts) }
         ELSE LET src_value == accts[src_id].balance IN
              IF InsufficientFunds(src_value, value)
              THEN { Outcome("TransferFailed", accts) }
              ELSE LET created == get_or_create_account(accts, destination)
                       dst_value == created[destination].balance
                       debited == set_balance(created, src_id, src_value - value)
                       kept == IF src_value = value /\ src_id # destination
                               THEN [debited EXCEPT ![src_id] = NoAccount]
                               ELSE debited
                   IN  { IF credit.panic
                         THEN Outcome("panic", kept)
                         ELSE Outcome("Ok", set_balance(kept, destination, credit.sum)) :
                         credit \in CreditedBalance(dst_value, value) }

\* EnvInstance::transfer_impl(destination, value): the outcomes of one call
transfer_impl(accts, ctx, destination, value) ==
    IF ~ctx.initialized
    THEN { Outcome("panic", accts) }
    ELSE LET src_id == ctx.callee IN
         IF ~accts[src_id].exists
         THEN { Outcome("panic", accts) }
         ELSE LET src_value == accts[src_id].balance IN
              IF InsufficientFunds(src_value, value)
              THEN { Outcome("TransferFailed", accts) }
              ELSE LET created == get_or_create_account(accts, destination)
                       dst_value == created[destination].balance
                       debited == set_balance(created, src_id, src_value - value)
                   IN  { IF credit.panic
                         THEN Outcome("panic", debited)
                         ELSE Outcome("Ok", set_balance(debited, destination, credit.sum)) :
                         credit \in CreditedBalance(dst_value, value) }

EnvStep(op, target, value, out) ==
    /\ accounts' = out.accounts
    /\ last' = [op |-> op, target |-> target, value |-> value,
                result |-> out.result, ret |-> None, before |-> accounts]
    /\ pc' = IF out.result = "panic" THEN "panicked" ELSE AfterEnvCall
    /\ ops' = ops + 1
    /\ UNCHANGED <<chain_spec, exec_context, mode, invoked, result, exit_code>>

\* TypedEnv::transfer
Transfer(destination, value) ==
    /\ EnvCallable
    /\ \E out \in transfer_impl(accounts, exec_context, destination, value) :
          EnvStep("transfer", destination, value, out)

\* mutant: the entry is written to the storage of the caller of the contract
callee_storage_op_caller(accts, ctx, key, entry) ==
    IF ~ctx.initialized
    THEN Outcome("panic", accts)
    ELSE IF ~accts[ctx.callee].exists
    THEN Outcome("panic", accts)
    ELSE IF accts[ctx.callee].kind # "contract"
    THEN Outcome("panic", accts)
    ELSE Outcome("Ok", [accts EXCEPT ![ctx.caller].storage[key] = entry])

\* mutant: the storage of the callee is written whatever kind of account it is
callee_storage_op_any_kind(accts, ctx, key, entry) ==
    IF ~ctx.initialized
    THEN Outcome("panic", accts)
    ELSE IF ~accts[ctx.callee].exists
    THEN Outcome("panic", accts)
    ELSE Outcome("Ok", [accts EXCEPT ![ctx.callee].storage[key] = entry])

\* mutant: the removal of an entry expects the entry to be there
callee_storage_op_expect_entry(accts, ctx, key, entry) ==
    IF ~ctx.initialized
    THEN Outcome("panic", accts)
    ELSE IF ~accts[ctx.callee].exists
    THEN Outcome("panic", accts)
    ELSE IF accts[ctx.callee].kind # "contract"
    THEN Outcome("panic", accts)
    ELSE IF entry = None /\ accts[ctx.callee].storage[key] = None
    THEN Outcome("panic", accts)
    ELSE Outcome("Ok", [accts EXCEPT ![ctx.callee].storage[key] = entry])

\* mutant: an entry that is present is not written again
callee_storage_op_keep_first(accts, ctx, key, entry) ==
    IF ~ctx.initialized
    THEN Outcome("panic", accts)
    ELSE IF ~accts[ctx.callee].exists
    THEN Outcome("panic", accts)
    ELSE IF accts[ctx.callee].kind # "contract"
    THEN Outcome("panic", accts)
    ELSE IF entry # None /\ accts[ctx.callee].storage[key] # None
    THEN Outcome("Ok", accts)
    ELSE Outcome("Ok", [accts EXCEPT ![ctx.callee].storage[key] = entry])

\* EnvInstance::callee_account_mut followed by a change of the callee's storage,
\* which only a contract account has
callee_storage_op(accts, ctx, key, entry) ==
    IF ~ctx.initialized
    THEN Outcome("panic", accts)
    ELSE IF ~accts[ctx.callee].exists
    THEN Outcome("panic", accts)
    ELSE IF accts[ctx.callee].kind # "contract"
    THEN Outcome("panic", accts)
    ELSE Outcome("Ok", [accts EXCEPT ![ctx.callee].storage[key] = entry])

\* Env::set_contract_storage
SetContractStorage(key, value) ==
    /\ EnvCallable
    /\ EnvStep("set_contract_storage", key, value,
               callee_storage_op(accounts, exec_context, key, Some(EncodeU32(value))))

\* Env::clear_contract_storage
ClearContractStorage(key) ==
    /\ EnvCallable
    /\ EnvStep("clear_contract_storage", key, 0,
               callee_storage_op(accounts, exec_context, key, None))

\* what a query of the environment returns: a panic, Err(_) or Ok(ret)
Returned(res, ret) == [result |-> res, ret |-> ret]

\* Account::get_storage::<R>(key): an error for an account that is no contract,
\* Ok(None) without an entry, the entry decoded as R otherwise
get_storage(account, key, R) ==
    IF account.kind # "contract"
    THEN Returned("Err", None)
    ELSE LET stored == account.storage[key] IN
         IF stored = None
         THEN Returned("Ok", None)
         ELSE LET decoded == DecodeType(R, stored[1]) IN
              IF decoded.ok
              THEN Returned("Ok", Some(decoded.val))
              ELSE Returned("Err", None)

\* Env::get_contract_storage::<R>(key)
get_contract_storage(accts, ctx, key, R) ==
    IF ~ctx.initialized
    THEN Returned("panic", None)
    ELSE IF ~accts[ctx.callee].exists
    THEN Returned("panic", None)
    ELSE get_storage(accts[ctx.callee], key, R)

\* a query: the state of the environment stays as it is
QueryStep(op, target, value, out) ==
    /\ last' = [op |-> op, target |-> target, value |-> value,
                result |-> out.result, ret |-> out.ret, before |-> accounts]
    /\ pc' = IF out.result = "panic" THEN "panicked" ELSE AfterEnvCall
    /\ ops' = ops + 1
    /\ UNCHANGED <<accounts, chain_spec, exec_context, mode, invoked, result, exit_code>>

GetContractStorage(key) ==
    /\ EnvCallable
    /\ QueryStep("get_contract_storage", key, 0,
                 get_contract_storage(accounts, exec_context, key, "u32"))

\* mutant: a query without an execution context returns an error to its caller
context_query_err(ctx, field) ==
    IF ~ctx.initialized
    THEN Returned("Err", None)
    ELSE Returned("Ok", Some(ctx[field]))

\* self.exec_context().expect("uninitialized execution context") followed by the
\* read of one field of the context
context_query(ctx, field) ==
    IF ~ctx.initialized
    THEN Returned("panic", None)
    ELSE Returned("Ok", Some(ctx[field]))

\* TypedEnv::caller
caller(ctx) == context_query(ctx, "caller")

\* TypedEnv::transferred_balance
transferred_balance(ctx) == context_query(ctx, "transferred_value")

\* TypedEnv::gas_left
gas_left(ctx) == context_query(ctx, "gas")

\* TypedEnv::account_id
account_id(ctx) == context_query(ctx, "callee")

EnvCaller ==
    /\ EnvCallable
    /\ QueryStep("caller", "", 0, caller(exec_context))

EnvTransferredBalance ==
    /\ EnvCallable
    /\ QueryStep("transferred_balance", "", 0, transferred_balance(exec_context))

EnvGasLeft ==
    /\ EnvCallable
    /\ QueryStep("gas_left", "", 0, gas_left(exec_context))

EnvAccountId ==
    /\ EnvCallable
    /\ QueryStep("account_id", "", 0, account_id(exec_context))

\* mutant: T is decoded from the bytes behind the selector
decode_input_as_args_only(ctx, T) ==
    IF ~ctx.initialized
    THEN Returned("Err", None)
    ELSE LET decoded == DecodeType(T, Drop(EncodeCallData(ctx.call_data), SelectorLen))
         IN  IF decoded.ok
             THEN Returned("Ok", Some(decoded.val))
             ELSE Returned("Err", None)

\* EnvInstance::decode_input::<T> for a T that is a plain type: T decoded off the
\* front of the encoded call data
decode_input_as(ctx, T) ==
    IF ~ctx.initialized
    THEN Returned("Err", None)
    ELSE LET decoded == DecodeType(T, EncodeCallData(ctx.call_data)) IN
         IF decoded.ok
         THEN Returned("Ok", Some(decoded.val))
         ELSE Returned("Err", None)

\* the types a handler or a test asks decode_input for
InputTypes == {"u16", "u32"}

\* Env::decode_input::<T>()
DecodeInput(T) ==
    /\ EnvCallable
    /\ QueryStep("decode_input", T, 0, decode_input_as(exec_context, T))

\* mutant: the product is taken modulo 2^w
saturating_mul_wrapping(a, b) == (a * b) % BalanceModulus

\* Saturating::saturating_mul on T::Balance
saturating_mul(a, b) == IF a * b > MaxBalance THEN MaxBalance ELSE a * b

\* gas.try_into().unwrap_or_else(|_| Bounded::max_value()): u64 to T::Balance
gas_into_balance(gas) == IF gas <= MaxBalance THEN gas ELSE MaxBalance

\* TypedEnv::weight_to_fee(gas)
weight_to_fee(spec, gas) ==
    IF spec.gas_price = None
    THEN Returned("Err", None)
    ELSE Returned("Ok", Some(saturating_mul(spec.gas_price[1], gas_into_balance(gas))))

WeightToFee(gas) ==
    /\ EnvCallable
    /\ QueryStep("weight_to_fee", "", gas, weight_to_fee(chain_spec, gas))

\* mutant: the output is stored and the call returns to the handler
return_value_no_exit(ctx, flags, value) ==
    IF ~ctx.initialized
    THEN [pc |-> "panicked", exec_context |-> ctx, exit_code |-> -1]
    ELSE [pc |-> "handler",
          exec_context |-> [ctx EXCEPT !.output = Some(EncodeU32(value))],
          exit_code |-> -1]

\* mutant: an operation the environment does not support returns Ok(()) unnoticed
unimplemented_silent(accts) == Outcome("Ok", accts)

\* unimplemented!("off-chain environment does not support ..."): the body of every
\* contract-to-contract operation, whatever its arguments
unimplemented(accts) == Outcome("panic", accts)

\* Env::invoke_contract(call_params)
InvokeContract(callee) ==
    /\ EnvCallable
    /\ EnvStep("invoke_contract", callee, 0, unimplemented(accounts))

\* Env::eval_contract(call_params)
EvalContract(callee) ==
    /\ EnvCallable
    /\ EnvStep("eval_contract", callee, 0, unimplemented(accounts))

\* Env::instantiate_contract(params)
InstantiateContract ==
    /\ EnvCallable
    /\ EnvStep("instantiate_contract", "", 0, unimplemented(accounts))

\* Env::terminate_contract(beneficiary)
TerminateContract(beneficiary) ==
    /\ EnvCallable
    /\ EnvStep("terminate_contract", beneficiary, 0, unimplemented(accounts))

\* Env::restore_contract(account_id, code_hash, rent_allowance, filtered_keys)
RestoreContract(restored) ==
    /\ EnvCallable
    /\ EnvStep("restore_contract", restored, 0, unimplemented(accounts))

\* mutant: the value is stored as it is, without its encoding
return_value_unencoded(ctx, flags, value) ==
    IF ~ctx.initialized
    THEN [pc |-> "panicked", exec_context |-> ctx, exit_code |-> -1]
    ELSE [pc |-> "exited",
          exec_context |-> [ctx EXCEPT !.output = Some(<< value >>)],
          exit_code |-> flags]

\* Env::return_value(flags, return_value): stores the encoded value as the output of
\* the execution context and exits the process with the flags as status
return_value(ctx, flags, value) ==
    IF ~ctx.initialized
    THEN [pc |-> "panicked", exec_context |-> ctx, exit_code |-> -1]
    ELSE [pc |-> "exited",
          exec_context |-> [ctx EXCEPT !.output = Some(EncodeU32(value))],
          exit_code |-> flags]

ReturnStep(flags, value) ==
    LET out == return_value(exec_context, flags, value) IN
    /\ pc' = out.pc
    /\ exec_context' = out.exec_context
    /\ exit_code' = out.exit_code
    /\ last' = [op |-> "return_value", target |-> "", value |-> value,
                result |-> IF out.pc = "panicked" THEN "panic" ELSE "exit",
                ret |-> None, before |-> accounts]
    /\ UNCHANGED <<accounts, chain_spec, mode, invoked, result>>

\* a handler or a test calling ink_core::env::return_value
ReturnValue(flags, value) ==
    /\ EnvCallable
    /\ ops' = ops + 1
    /\ ReturnStep(flags, value)

-----------------------------------------------------------------------------
(* The end of a handler *)

\* the value the handler returns: inc returns its argument plus one, get the u32
\* stored under the root key
HandlerOutput(call, accts, ctx) ==
    CASE call.handler.ident = "inc" -> call.args[1] + 1
      [] call.handler.ident = "get" ->
            LET stored == accts[ctx.callee].storage["root"] IN
            IF stored = None THEN 0 ELSE DecodeType("u32", stored[1]).val
      [] OTHER -> 0

\* the contract state a mutating handler leaves behind its exclusive reference:
\* put(flag, value) sets the stored u32 to value
HandlerState(call) == call.args[2]

\* what execute_message_mut writes back after CALLABLE has returned: the state, under
\* the root key of the callee; execute_message writes nothing
push_state(call, accts, ctx) ==
    IF generate_dispatch_execute_message_arm(call.handler).exec_fn = "execute_message_mut"
    THEN callee_storage_op(accts, ctx, "root", Some(EncodeU32(HandlerState(call))))
    ELSE Outcome("Ok", accts)

\* ink_lang::execute_message, execute_message_mut, execute_constructor after CALLABLE
\* has returned: the state of a mutating message is written back, a result other
\* than () goes to return_value, otherwise Ok(()); the mutating message of the
\* contract returns ()
HandlerReturn ==
    /\ pc = "handler"
    /\ invoked # << >>
    /\ LET call == invoked[1] IN
       IF call.handler.output # "unit"
       THEN IF ~accounts[exec_context.callee].exists
               \/ accounts[exec_context.callee].kind # "contract"
            THEN /\ pc' = "panicked"
                 /\ last' = NoOp(accounts)
                 /\ UNCHANGED <<accounts, chain_spec, exec_context, mode, invoked,
                                result, exit_code>>
            ELSE ReturnStep(0, HandlerOutput(call, accounts, exec_context))
       ELSE LET pushed == push_state(call, accounts, exec_context) IN
            /\ pc' = IF pushed.result = "panic" THEN "panicked" ELSE "done"
            /\ result' = IF pushed.result = "panic" THEN result ELSE "Ok"
            /\ accounts' = pushed.accounts
            /\ last' = NoOp(accounts)
            /\ UNCHANGED <<chain_spec, exec_context, mode, invoked, exit_code>>
    /\ UNCHANGED ops

-----------------------------------------------------------------------------

Next ==
    \/ Deploy
    \/ Call
    \/ \E destination \in AccountIds, value \in Balances : Transfer(destination, value)
    \/ \E key \in Keys, value \in Values : SetContractStorage(key, value)
    \/ \E key \in Keys : ClearContractStorage(key)
    \/ \E key \in Keys : GetContractStorage(key)
    \/ \E T \in InputTypes : DecodeInput(T)
    \/ EnvCaller
    \/ EnvTransferredBalance
    \/ EnvGasLeft
    \/ EnvAccountId
    \/ \E callee \in AccountIds : InvokeContract(callee)
    \/ \E callee \in AccountIds : EvalContract(callee)
    \/ InstantiateContract
    \/ \E beneficiary \in AccountIds : TerminateContract(beneficiary)
    \/ \E restored \in AccountIds : RestoreContract(restored)
    \/ \E flags \in ReturnFlags, value \in Values : ReturnValue(flags, value)
    \/ HandlerReturn

Spec == Init /\ [][Next]_vars

-----------------------------------------------------------------------------
(* weight_to_fee over every gas price and every amount of gas *)

InitFee ==
    /\ chain_spec \in {NewChainSpec(None)}
                       \cup { NewChainSpec(Some(price)) : price \in Balances }
    /\ exec_context \in {NoContext, NewExecContext(TestCallData)}
    /\ accounts = [id \in AccountIds |->
                      CASE id = Callee -> NewContractAccount(MaxBalance - 1, 41)
                        [] id = Caller -> NewUserAccount(MaxBalance)
                        [] OTHER -> NoAccount]
    /\ pc = "start"
    /\ mode = "none"
    /\ invoked = << >>
    /\ result = "none"
    /\ exit_code = -1
    /\ last = NoOp(accounts)
    /\ ops = 0

NextFee == \E gas \in 0..MaxGas : WeightToFee(gas)

SpecFee == InitFee /\ [][NextFee]_vars

-----------------------------------------------------------------------------
(* Claims about dispatch *)

\* the handler table the specification names for a dispatch mode
ActiveTable(m) == IF m = "Instantiate" THEN Constructors ELSE Messages

SelectorsOf(table) == { h.selector : h \in Range(table) }

\* an entry point has run on an initialized execution context
Dispatched == mode # "none" /\ exec_context.initialized

CallData == exec_context.call_data

\* C1: for every selector S of the active table and every valid encoding A of S's
\* arguments, dispatch(S ++ A) invokes exactly the handler of S, with the arguments
\* decoded from A in declaration order, and no other handler
C1_DispatchInvokesHandler ==
    \A h \in Range(ActiveTable(mode)) : \A vals \in ArgTuples(h.inputs) :
        (Dispatched /\ CallData = h.selector \o EncodeArgs(h.inputs, vals))
            => invoked = << [handler |-> h, args |-> vals] >>

\* C2: Instantiate accepts exactly the constructor selectors and runs the matched
\* constructor, Call accepts exactly the message selectors and runs the matched
\* message; a selector of the other table only is not accepted
C2_SelectorLookedUpInModeTable ==
    (Dispatched /\ Len(CallData) >= SelectorLen) =>
        /\ Take(CallData, SelectorLen) \notin SelectorsOf(ActiveTable(mode))
              => (invoked = << >> /\ pc = "done" /\ result # "Ok")
        /\ \A h \in Range(ActiveTable(mode)) : \A vals \in ArgTuples(h.inputs) :
              CallData = h.selector \o EncodeArgs(h.inputs, vals)
                  => (Len(invoked) = 1 /\ invoked[1].handler = h)

\* C3: call data whose first 4 bytes are no selector of the active table fails with
\* UnknownSelector, not with CouldNotReadInput, and no handler runs
C3_UnknownSelectorError ==
    (Dispatched /\ Len(CallData) >= SelectorLen
        /\ Take(CallData, SelectorLen) \notin SelectorsOf(ActiveTable(mode)))
        => (result = "UnknownSelector" /\ invoked = << >>)

\* C4: call data shorter than 4 bytes, the empty one included, fails with
\* CouldNotReadInput in either mode and no handler runs
C4_ShortCallData ==
    (Dispatched /\ Len(CallData) < SelectorLen)
        => (pc = "done" /\ result = "CouldNotReadInput" /\ invoked = << >>)

C4_Witness ==
    /\ Dispatched
    /\ mode = "Instantiate"
    /\ CallData = <<0, 0, 0>>
    /\ result = "CouldNotReadInput"

\* C5: when dispatch fails on the decoding of the selector or of an argument, no
\* handler has been invoked and balances, storage and the output slot are as before
C5_DecodeFailureChangesNothing ==
    result = "CouldNotReadInput"
        => /\ invoked = << >>
           /\ accounts = last.before
           /\ exec_context.output = None
           /\ exit_code = -1
           /\ pc = "done"

\* the bool argument of put does not decode
C5_Witness ==
    /\ mode = "Call"
    /\ CallData = <<0, 0, 0, 4, 2, 2, 1>>
    /\ result = "CouldNotReadInput"
    /\ pc = "done"

-----------------------------------------------------------------------------
(* Claims about transfer *)

\* the last environment operation was a transfer that returned Ok(())
TransferSucceeded == last.op = "transfer" /\ last.result = "Ok"

\* the last operation was a transfer by an existing executing contract
TransferCalled ==
    /\ last.op = "transfer"
    /\ exec_context.initialized
    /\ last.before[exec_context.callee].exists

SourceBefore == BalanceOf(last.before, exec_context.callee)
SourceAfter == BalanceOf(accounts, exec_context.callee)
DestinationBefore == BalanceOf(last.before, last.target)
DestinationAfter == BalanceOf(accounts, last.target)

\* C6: a successful transfer from a to b with a # b and amount <= balance(a) leaves
\* balance(a) + balance(b) unchanged and lowers balance(a) by exactly the amount
C6_TransferConservesPair ==
    (TransferSucceeded /\ last.target # exec_context.callee) =>
        /\ SourceAfter = SourceBefore - last.value
        /\ DestinationAfter = DestinationBefore + last.value
        /\ SourceAfter + DestinationAfter = SourceBefore + DestinationBefore

\* C7: the sum of all balances is the same after every successful transfer as
\* before it, for every destination, the executing contract's own account included
C7_TransferConservesTotal ==
    TransferSucceeded => TotalBalance(accounts) = TotalBalance(last.before)

\* C8: for every amount above the balance of the source, transfer returns
\* TransferFailed and leaves the balances of source and destination unchanged
C8_TransferInsufficientFunds ==
    (TransferCalled /\ last.value > SourceBefore) =>
        /\ last.result = "TransferFailed"
        /\ SourceAfter = SourceBefore
        /\ DestinationAfter = DestinationBefore

C8_Witness ==
    /\ TransferCalled
    /\ last.result = "TransferFailed"
    /\ last.value = SourceBefore + 1
    /\ last.target # exec_context.callee
    /\ pc = "handler"

\* C9: when the destination's balance plus the amount exceeds the maximum of the
\* balance type, transfer reports a failure to its caller and the destination
\* balance is not set to the sum modulo 2^w
C9_CreditOverflowFails ==
    (TransferCalled /\ last.value <= SourceBefore
        /\ DestinationBefore + last.value > MaxBalance) =>
        /\ last.result \notin {"Ok", "panic"}
        /\ DestinationAfter # (DestinationBefore + last.value) % BalanceModulus

-----------------------------------------------------------------------------
(* Claims about the output slot *)

\* C10: the output slot starts empty, is written at most once and only by
\* return_value, and after return_value has written it nothing more of the
\* invocation runs
C10_OutputWrittenOnce ==
    /\ exec_context.output = None
    /\ [][ /\ pc # "exited"
           /\ exec_context'.output # exec_context.output
                 => /\ exec_context.output = None
                    /\ last'.op = "return_value"
                    /\ pc' = "exited" ]_vars

\* a running handler has called return_value with the revert flag
C10_Witness ==
    /\ pc = "exited"
    /\ invoked # << >>
    /\ exit_code = 1
    /\ exec_context.output = Some(EncodeU32(42))

\* the step by which a running handler comes to its end without a panic
HandlerCompletes == pc = "handler" /\ ops' = ops /\ pc' # "panicked"

\* C11: when a dispatched handler completes, the output of the environment is the
\* encoding of the value it returned and the status is 0; a handler without a return
\* value leaves no output bytes; inc called with 41 leaves the encoding of 42
C11_OutputIsEncodedReturn ==
    [][ HandlerCompletes =>
          LET call == invoked[1]
              returned == HandlerOutput(call, accounts, exec_context)
          IN  IF call.handler.output = "unit"
              THEN /\ exec_context'.output = None
                   /\ pc' = "done"
                   /\ EntryPointStatus' = 0
              ELSE /\ pc' = "exited"
                   /\ exit_code' = 0
                   /\ exec_context'.output # None
                   /\ Len(exec_context'.output[1]) = TypeLen(call.handler.output)
                   /\ DecodeType(call.handler.output, exec_context'.output[1]).val
                          = returned
                   /\ (call.handler.ident = "inc" /\ call.args = << 41 >>)
                          => exec_context'.output = << <<42, 0, 0, 0>> >> ]_vars

\* call() on 0x00000001 ++ encode(41) has ended with the encoding of 42 and status 0
C11_Witness ==
    /\ mode = "Call"
    /\ CallData = <<0, 0, 0, 1, 41, 0, 0, 0>>
    /\ ops = 0
    /\ pc = "exited"
    /\ exit_code = 0
    /\ exec_context.output = << <<42, 0, 0, 0>> >>

-----------------------------------------------------------------------------
(* Claims about the entry points *)

\* C12: deploy and call return the status 0 exactly when the dispatch succeeded and
\* a status other than 0 when it failed; CouldNotReadInput and UnknownSelector have
\* two different codes, none of them 0
C12_StatusCode ==
    /\ pc = "done" =>
          /\ EntryPointStatus = 0 <=> (result = "Ok" /\ invoked # << >>)
          /\ result \in {"CouldNotReadInput", "UnknownSelector"} <=> EntryPointStatus > 0
    /\ DispatchRetCode("CouldNotReadInput") # DispatchRetCode("UnknownSelector")
    /\ DispatchRetCode("CouldNotReadInput") # 0
    /\ DispatchRetCode("UnknownSelector") # 0

\* call() has run put(TRUE, 258) to its end and returned 0
C12_Witness ==
    /\ mode = "Call"
    /\ pc = "done"
    /\ Len(invoked) = 1
    /\ invoked[1].handler.ident = "put"
    /\ EntryPointStatus = 0

\* deploy() has returned the code of CouldNotReadInput
C12_WitnessFailure ==
    /\ mode = "Instantiate"
    /\ pc = "done"
    /\ invoked = << >>
    /\ EntryPointStatus = DispatchRetCode("CouldNotReadInput")

-----------------------------------------------------------------------------
(* Claims about the argument section *)

\* the call data begins with the byte string p
StartsWith(p) == Len(CallData) >= Len(p) /\ Take(CallData, Len(p)) = p

\* C14: trailing bytes are ignored: for every valid payload S ++ A and every byte
\* string X, dispatch(S ++ A ++ X) succeeds and invokes the same handler with the
\* same decoded arguments as dispatch(S ++ A)
C14_TrailingBytesIgnored ==
    \A h \in Range(ActiveTable(mode)) : \A vals \in ArgTuples(h.inputs) :
        LET payload == h.selector \o EncodeArgs(h.inputs, vals) IN
        (Dispatched /\ StartsWith(payload)) =>
            /\ invoked = << [handler |-> h, args |-> vals] >>
            /\ invoked = dispatch_using_mode(mode,
                              [exec_context EXCEPT !.call_data = payload]).invoked
            /\ result # "CouldNotReadInput"

\* where the encoding of argument i begins in the call data of handler h
RECURSIVE ArgOffset(_, _)
ArgOffset(h, i) ==
    IF i = 1 THEN SelectorLen ELSE ArgOffset(h, i - 1) + TypeLen(h.inputs[i - 1])

\* C15: the argument section has the shape fixed by the arity of the handler: no
\* bytes for no argument, the argument's own encoding for one, the encodings in
\* declared order for two or more, decoded left to right; the handler receives the
\* arguments in this order
C15_ArgumentSection ==
    invoked # << >> =>
        LET h == invoked[1].handler
            args == invoked[1].args
        IN  /\ Len(args) = Len(h.inputs)
            /\ \A i \in 1..Len(h.inputs) :
                  LET field == DecodeType(h.inputs[i], Drop(CallData, ArgOffset(h, i)))
                  IN  field.ok /\ args[i] = field.val
            /\ StartsWith(h.selector \o EncodeArgs(h.inputs, args))
            /\ h.inputs = << >> => StartsWith(h.selector)
            /\ Len(h.inputs) = 1 =>
                  StartsWith(h.selector \o EncodeType(h.inputs[1], args[1]))

\* put(bool, u16) has been called with the fields of 01 02 01 in declared order
C15_Witness ==
    /\ mode = "Call"
    /\ CallData = <<0, 0, 0, 4, 1, 2, 1>>
    /\ Len(invoked) = 1
    /\ invoked[1].handler.ident = "put"
    /\ invoked[1].args = << TRUE, 258 >>

-----------------------------------------------------------------------------
(* Claims about the storage of the callee *)

\* what get_contract_storage::<u32>(key) returns in the current state
StoredNow(key) == get_contract_storage(accounts, exec_context, key, "u32")

\* the last environment operation was `op` and it went through
Did(op) == last.op = op /\ last.result = "Ok"

\* the callee was a contract account before the last operation
CalleeWasContract ==
    /\ exec_context.initialized
    /\ last.before[exec_context.callee].exists
    /\ last.before[exec_context.callee].kind = "contract"

\* C16: get_storage(k) returns None for a key never set or cleared; after
\* set_storage(k, v) it returns v, and a second set_storage(k, v2) overwrites so
\* that it returns v2
C16_StorageRoundTrip ==
    /\ [] /\ (ops = 0 /\ CalleeWasContract) =>
                StoredNow("other") = Returned("Ok", None)
          /\ Did("clear_contract_storage") =>
                StoredNow(last.target) = Returned("Ok", None)
          /\ Did("set_contract_storage") =>
                StoredNow(last.target) = Returned("Ok", Some(last.value))
    /\ [][ (last'.op = "get_contract_storage" /\ last'.target = last.target) =>
             /\ Did("set_contract_storage") =>
                   (last'.result = "Ok" /\ last'.ret = Some(last.value))
             /\ Did("clear_contract_storage") =>
                   (last'.result = "Ok" /\ last'.ret = None) ]_vars

\* the entry 41 under the root key has been overwritten with 42 and read back
C16_Witness ==
    /\ last.op = "get_contract_storage"
    /\ last.target = "root"
    /\ last.ret = Some(42)
    /\ ops = 2
    /\ \E id \in AccountIds :
          /\ last.before[id].exists
          /\ last.before[id].storage["root"] = Some(EncodeU32(42))

\* the storage of the callee, before the last operation and now
StorageBefore == last.before[exec_context.callee].storage
StorageNow == accounts[exec_context.callee].storage

\* C17: clear_storage(k) removes the entry of k if there is one and does nothing,
\* without an error, if there is none; it is idempotent, and afterwards
\* get_storage(k) returns None
C17_ClearStorage ==
    (last.op = "clear_contract_storage" /\ CalleeWasContract) =>
        /\ last.result = "Ok"
        /\ pc # "panicked"
        /\ StorageNow = [StorageBefore EXCEPT ![last.target] = None]
        /\ StorageBefore[last.target] = None => accounts = last.before
        /\ \A id \in AccountIds \ {exec_context.callee} : accounts[id] = last.before[id]
        /\ callee_storage_op(accounts, exec_context, last.target, None)
              = Outcome("Ok", accounts)
        /\ StoredNow(last.target) = Returned("Ok", None)

\* a key without an entry has been cleared, twice in a row
C17_Witness ==
    /\ last.op = "clear_contract_storage"
    /\ CalleeWasContract
    /\ last.target = "other"
    /\ StorageBefore["other"] = None
    /\ last.result = "Ok"
    /\ ops = 2
    /\ accounts = last.before

\* an entry that was there has been removed
C17_WitnessPresent ==
    /\ last.op = "clear_contract_storage"
    /\ last.target = "root"
    /\ StorageBefore["root"] = Some(EncodeU32(41))
    /\ StorageNow["root"] = None

\* C18: set_storage while the callee account is not a contract account, or does not
\* exist, aborts instead of returning an error and writes nothing to any storage
C18_SetStorageAborts ==
    (last.op = "set_contract_storage" /\ exec_context.initialized
        /\ ~CalleeWasContract) =>
        /\ last.result = "panic"
        /\ pc = "panicked"
        /\ accounts = last.before

\* a handler whose callee is a user account has called set_storage
C18_Witness ==
    /\ last.op = "set_contract_storage"
    /\ exec_context.initialized
    /\ invoked # << >>
    /\ last.before[exec_context.callee].exists
    /\ last.before[exec_context.callee].kind = "user"
    /\ pc = "panicked"

\* set_storage without an account of the callee
C18_WitnessAbsent ==
    /\ last.op = "set_contract_storage"
    /\ exec_context.initialized
    /\ ~last.before[exec_context.callee].exists
    /\ pc = "panicked"

-----------------------------------------------------------------------------
(* Claims about the operations the off-chain environment does not support *)

UnsupportedOps ==
    {"invoke_contract", "eval_contract", "instantiate_contract",
     "terminate_contract", "restore_contract"}

\* C19: invoke_contract, eval_contract, instantiate_contract, terminate_contract
\* and restore_contract abort on every call: none returns a value and none changes
\* an account, a storage entry or the execution context
C19_UnsupportedOpsAbort ==
    /\ [](last.op \in UnsupportedOps =>
             /\ last.result = "panic"
             /\ last.ret = None
             /\ pc = "panicked"
             /\ accounts = last.before)
    /\ [][ last'.op \in UnsupportedOps =>
             /\ pc' = "panicked"
             /\ UNCHANGED <<accounts, chain_spec, exec_context, exit_code, result,
                            invoked>> ]_vars

\* a running handler has called terminate_contract
C19_Witness ==
    /\ last.op = "terminate_contract"
    /\ invoked # << >>
    /\ last.target = "bob"
    /\ pc = "panicked"
    /\ accounts = last.before

-----------------------------------------------------------------------------
(* Claims about weight_to_fee *)

Min(a, b) == IF a < b THEN a ELSE b

\* C20: weight_to_fee(gas) returns min(gas_price * gas, MAX), MAX being the maximum
\* of the balance type: it saturates instead of wrapping, also when gas itself does
\* not fit into the balance type
C20_WeightToFeeSaturates ==
    (last.op = "weight_to_fee" /\ chain_spec.gas_price # None) =>
        /\ last.result = "Ok"
        /\ last.ret = Some(Min(chain_spec.gas_price[1] * last.value, MaxBalance))
        /\ accounts = last.before

\* the product of a gas that does not fit the balance type has been cut off at MAX
C20_Witness ==
    /\ last.op = "weight_to_fee"
    /\ last.value > MaxBalance
    /\ chain_spec.gas_price = Some(1)
    /\ last.ret = Some(MaxBalance)

\* gas fits, the product does not
C20_WitnessProduct ==
    /\ last.op = "weight_to_fee"
    /\ last.value = 2
    /\ chain_spec.gas_price = Some(MaxBalance)
    /\ last.ret = Some(MaxBalance)

-----------------------------------------------------------------------------
(* Claims about the account store *)

\* C21: an account that does not exist is created when it is first the destination
\* of a transfer, with balance zero before the credit; no operation removes an
\* account, so the set of existing accounts only grows
C21_AccountsOnlyGrow ==
    /\ []((TransferSucceeded /\ ~last.before[last.target].exists) =>
             /\ accounts[last.target].exists
             /\ accounts[last.target].balance = 0 + last.value
             /\ accounts[last.target].storage = EmptyStorage)
    /\ [][ Existing(accounts) \subseteq Existing(accounts') ]_vars

\* carol, who had no account, has received 1 and has an account with balance 1
C21_Witness ==
    /\ TransferSucceeded
    /\ last.target = "carol"
    /\ ~last.before["carol"].exists
    /\ last.value = 1
    /\ accounts["carol"].exists
    /\ accounts["carol"].balance = 1

-----------------------------------------------------------------------------
(* Claims about the reference to the contract state *)

\* C22: a handler receives an exclusive reference to the contract state exactly
\* when it is declared mutating and a shared reference otherwise; the dispatch of a
\* read-only message therefore leaves the contract state unchanged
C22_ReferenceByReceiver ==
    /\ [](invoked # << >> =>
             LET h == invoked[1].handler
                 arm == generate_dispatch_execute_message_arm(h)
             IN  /\ arm.mut_mod <=> h.receiver = "RefMut"
                 /\ arm.exec_fn = "execute_message_mut" <=> h.receiver = "RefMut"
                 /\ arm.msg_trait = message_trait_ident(h))
    /\ [][ HandlerCompletes =>
             LET call == invoked[1] IN
             IF call.handler.receiver = "Ref"
             THEN accounts' = accounts
             ELSE accounts' = [accounts EXCEPT ![exec_context.callee].storage["root"] =
                                  Some(EncodeU32(HandlerState(call)))] ]_vars

\* get, a read-only message, has run to its end on the state it found
C22_Witness ==
    /\ mode = "Call"
    /\ Len(invoked) = 1
    /\ invoked[1].handler.ident = "get"
    /\ invoked[1].handler.receiver = "Ref"
    /\ ops = 0
    /\ pc = "exited"
    /\ accounts = last.before
    /\ exec_context.output = Some(EncodeU32(41))

\* put, a mutating message, has changed the state
C22_WitnessMut ==
    /\ mode = "Call"
    /\ Len(invoked) = 1
    /\ invoked[1].handler.receiver = "RefMut"
    /\ ops = 0
    /\ pc = "done"
    /\ accounts[exec_context.callee].storage["root"] = Some(EncodeU32(258))

-----------------------------------------------------------------------------
(* Claims about decode_input *)

\* the little-endian number in the first n bytes of a byte string
RECURSIVE LittleEndian(_, _)
LittleEndian(bytes, n) ==
    IF n = 0 THEN 0 ELSE bytes[1] + 256 * LittleEndian(Tail(bytes), n - 1)

\* what decoding T from a byte string gives, as decode_input returns it
DecodedFrom(bytes, T) ==
    IF Len(bytes) < TypeLen(T)
    THEN Returned("Err", None)
    ELSE Returned("Ok", Some(LittleEndian(bytes, TypeLen(T))))

DecodeInputCalled == last.op = "decode_input" /\ exec_context.initialized

\* the call data are as before a call of decode_input, and a second call returns
\* what the first has returned
DecodeInputRepeatable ==
    /\ [](DecodeInputCalled =>
             decode_input_as(exec_context, last.target)
                 = Returned(last.result, last.ret))
    /\ [][ last'.op = "decode_input" =>
             UNCHANGED <<accounts, chain_spec, exec_context>> ]_vars

\* C23 as stated: decode_input::<T>() decodes T from the argument section of the
\* call data, the bytes that follow the 4-byte selector, and leaves the call data
\* unchanged so that it can be decoded again with the same result
C23_DecodesArgumentSection ==
    /\ [](DecodeInputCalled =>
             Returned(last.result, last.ret)
                 = DecodedFrom(Drop(CallData, Min(SelectorLen, Len(CallData))),
                               last.target))
    /\ DecodeInputRepeatable

\* C23, amended: decode_input::<T>() decodes T from the front of the call data, the
\* 4-byte selector included, and leaves the call data unchanged so that it can be
\* decoded again with the same result
C23_DecodesWholeCallData ==
    /\ [](DecodeInputCalled =>
             Returned(last.result, last.ret) = DecodedFrom(CallData, last.target))
    /\ DecodeInputRepeatable

\* the handler of 00 00 00 01 ++ encode(41) has asked for a u32 and has got the
\* selector, 0x01000000, not 41
C23_Witness ==
    /\ DecodeInputCalled
    /\ last.target = "u32"
    /\ CallData = <<0, 0, 0, 1, 41, 0, 0, 0>>
    /\ invoked # << >>
    /\ last.ret = Some(16777216)

-----------------------------------------------------------------------------
(* Claims about the steps of a transfer *)

\* C24: a transfer is atomic: however it has ended (with success, with an error or
\* with an abort), either the debit of the source and the credit of the destination
\* have both been applied or none of them; the source is never left debited
\* without the destination being credited
C24_TransferAtomic ==
    (TransferCalled /\ last.target # exec_context.callee) =>
        \/ /\ SourceAfter = SourceBefore
           /\ DestinationAfter = DestinationBefore
        \/ /\ SourceAfter = SourceBefore - last.value
           /\ DestinationAfter \in { DestinationBefore + last.value,
                                     (DestinationBefore + last.value) % BalanceModulus }

\* C25: a transfer rejected for insufficient funds does not create the destination
\* account: the accounts after a TransferFailed are those before it
C25_FailedTransferCreatesNothing ==
    (last.op = "transfer" /\ last.result = "TransferFailed") =>
        /\ Existing(accounts) = Existing(last.before)
        /\ accounts = last.before
        /\ InsufficientFunds(SourceBefore, last.value)

\* a transfer to carol, who has no account, has been rejected and she still has none
C25_Witness ==
    /\ last.op = "transfer"
    /\ last.result = "TransferFailed"
    /\ last.target = "carol"
    /\ ~last.before["carol"].exists
    /\ ~accounts["carol"].exists

-----------------------------------------------------------------------------
(* Claims about what the storage operations leave alone *)

StorageWrites == {"set_contract_storage", "clear_contract_storage"}

\* C26: set_storage(k, v) and clear_storage(k) change only the entry under k in the
\* storage of the callee account of the current execution context: every other key
\* of the callee, the storage of every other account, all balances and rent
\* allowances and the execution context are unchanged
C26_StorageWriteFrame ==
    /\ [](last.op \in StorageWrites =>
             IF CalleeWasContract
             THEN accounts = [last.before EXCEPT
                                 ![exec_context.callee].storage[last.target] =
                                     StorageNow[last.target]]
             ELSE accounts = last.before)
    /\ [][ last'.op \in StorageWrites =>
             UNCHANGED <<chain_spec, exec_context, mode, invoked, result, exit_code>> ]_vars

\* the root entry of the callee has been overwritten, the rest is as before
C26_Witness ==
    /\ last.op = "set_contract_storage"
    /\ last.target = "root"
    /\ last.value = 42
    /\ CalleeWasContract
    /\ StorageBefore["root"] = Some(EncodeU32(41))
    /\ StorageNow["root"] = Some(EncodeU32(42))
    /\ StorageNow["other"] = StorageBefore["other"]
    /\ accounts[exec_context.caller] = last.before[exec_context.caller]

-----------------------------------------------------------------------------
(* Claims about a missing execution context *)

ContextQueries == {"caller", "transferred_balance", "gas_left", "account_id"}

\* C27: without an execution context decode_input returns an error, which the
\* dispatch reports as CouldNotReadInput with no handler run, and does not abort;
\* the queries caller, transferred_balance, gas_left and account_id abort
C27_UninitializedContext ==
    ~exec_context.initialized =>
        /\ last.op = "decode_input" => (last.result = "Err" /\ pc # "panicked")
        /\ mode # "none" =>
              (pc = "done" /\ result = "CouldNotReadInput" /\ invoked = << >>)
        /\ last.op \in ContextQueries =>
              (last.result = "panic" /\ last.ret = None /\ pc = "panicked")

\* a test has asked for the caller without an execution context
C27_Witness ==
    /\ ~exec_context.initialized
    /\ last.op = "caller"
    /\ pc = "panicked"

\* decode_input without an execution context has returned and the test goes on
C27_WitnessDecode ==
    /\ ~exec_context.initialized
    /\ last.op = "decode_input"
    /\ last.result = "Err"
    /\ pc = "test"

====
